---- MODULE Spec2Model ----
(***************************************************************************)
(* A model of src/vectors.py: the Vector value type over decimal.Decimal   *)
(* with the arithmetic context set to 30 significant digits.               *)
(*                                                                         *)
(* Python values are records tagged by their type in field t.  A Decimal   *)
(* is [t |-> "Decimal", k, s, c, e]: k is "fin", "inf" or "nan", s the     *)
(* sign (0 or 1), c the coefficient as a sequence of decimal digits, most  *)
(* significant first and without leading zeros, e the exponent.  The       *)
(* coefficient is a digit sequence because a 30-digit coefficient does not *)
(* fit the integers of the model checker.                                  *)
(***************************************************************************)
EXTENDS Integers, Sequences, FiniteSets, TLC

VARIABLES a, b, last, pool

vars == <<a, b, last, pool>>

(***************************************************************************)
(* Bounds of the model and constants of the program.                       *)
(***************************************************************************)
\* the longest coordinate list handed to the constructor
MaxLen == 3

\* getcontext().prec = 30
Prec == 30

(***************************************************************************)
(* Unsigned arithmetic on digit sequences.                                 *)
(***************************************************************************)
Max(x, y) == IF x >= y THEN x ELSE y

Min(x, y) == IF x <= y THEN x ELSE y

Zeros(n) == [i \in 1..n |-> 0]

\* F applied to the value of e.  It is what LET v == e IN F(v) is, with e
\* evaluated once and before F.
Let(e, F(_)) == CHOOSE r \in {F(v) : v \in {e}} : TRUE

\* the digit sequence without its leading zeros (zero is <<0>>)
Strip(d) ==
    IF \A i \in 1..Len(d) : d[i] = 0 THEN <<0>>
    ELSE LET f == CHOOSE i \in 1..Len(d) :
                      d[i] # 0 /\ \A j \in 1..(i - 1) : d[j] = 0
         IN  SubSeq(d, f, Len(d))

IsZeroD(d) == \A i \in 1..Len(d) : d[i] = 0

PadLeft(d, n) == Zeros(n - Len(d)) \o d

\* The places lo..hi of x + y in the given base and the carry out of them,
\* given the carry into place hi.  The range is halved rather than walked, and
\* the low half is computed before the high half reads its carry (the test
\* L.c >= 0, which always holds), which keeps the depth of the evaluation
\* logarithmic in the number of places.
RECURSIVE AddSeg(_, _, _, _, _, _)
AddSeg(x, y, lo, hi, carry, base) ==
    IF lo = hi
    THEN LET s == x[lo] + y[lo] + carry
         IN  [d |-> <<s % base>>, c |-> s \div base]
    ELSE LET mid == (lo + hi) \div 2
             L   == AddSeg(x, y, mid + 1, hi, carry, base)
             H   == AddSeg(x, y, lo, mid, L.c, base)
         IN  IF L.c >= 0 THEN [d |-> H.d \o L.d, c |-> H.c] ELSE L

AddBase(x, y, base) ==
    IF IsZeroD(x) THEN Strip(y)
    ELSE IF IsZeroD(y) THEN Strip(x)
    ELSE
    LET n == Max(Len(x), Len(y))
    IN  Let(AddSeg(PadLeft(x, n), PadLeft(y, n), 1, n, 0, base),
            LAMBDA r : Strip(<<r.c>> \o r.d))

AddD(x, y) == AddBase(x, y, 10)

RECURSIVE SubSeg(_, _, _, _, _)
SubSeg(x, y, lo, hi, borrow) ==
    IF lo = hi
    THEN LET s == x[lo] - y[lo] - borrow
         IN  [d |-> <<IF s < 0 THEN s + 10 ELSE s>>, c |-> IF s < 0 THEN 1 ELSE 0]
    ELSE LET mid == (lo + hi) \div 2
             L   == SubSeg(x, y, mid + 1, hi, borrow)
             H   == SubSeg(x, y, lo, mid, L.c)
         IN  IF L.c >= 0 THEN [d |-> H.d \o L.d, c |-> H.c] ELSE L

\* x - y for x >= y
SubD(x, y) ==
    IF IsZeroD(y) THEN Strip(x)
    ELSE
    LET n == Max(Len(x), Len(y))
    IN  Strip(SubSeg(PadLeft(x, n), PadLeft(y, n), 1, n, 0).d)

\* -1, 0 or 1 as x < y, x = y or x > y, for x and y of one length
LexCmp(x, y) ==
    IF \A i \in 1..Len(x) : x[i] = y[i] THEN 0
    ELSE LET f == CHOOSE i \in 1..Len(x) :
                      x[i] # y[i] /\ \A j \in 1..(i - 1) : x[j] = y[j]
         IN  IF x[f] < y[f] THEN -1 ELSE 1

\* -1, 0 or 1 as x < y, x = y or x > y
CmpD(x, y) ==
    LET sx == Strip(x)
        sy == Strip(y)
    IN  IF Len(sx) < Len(sy) THEN -1
        ELSE IF Len(sx) > Len(sy) THEN 1
        ELSE LexCmp(sx, sy)

RECURSIVE MulDigitSeg(_, _, _, _, _, _)
MulDigitSeg(x, m, lo, hi, carry, base) ==
    IF lo = hi
    THEN LET s == x[lo] * m + carry
         IN  [d |-> <<s % base>>, c |-> s \div base]
    ELSE LET mid == (lo + hi) \div 2
             L   == MulDigitSeg(x, m, mid + 1, hi, carry, base)
             H   == MulDigitSeg(x, m, lo, mid, L.c, base)
         IN  IF L.c >= 0 THEN [d |-> H.d \o L.d, c |-> H.c] ELSE L

\* x times the single place m
MulDigit(x, m, base) ==
    Let(MulDigitSeg(x, m, 1, Len(x), 0, base), LAMBDA r : Strip(<<r.c>> \o r.d))

\* x times the number whose places are y[lo..hi]
RECURSIVE MulRange(_, _, _, _, _)
MulRange(x, y, lo, hi, base) ==
    IF lo = hi THEN MulDigit(x, y[lo], base)
    ELSE LET mid == (lo + hi) \div 2
         IN  AddBase(MulRange(x, y, lo, mid, base) \o Zeros(hi - mid),
                     MulRange(x, y, mid + 1, hi, base), base)

\* the digits of d in groups of four, as places in base 10000
ToLimbs(d) ==
    LET n == (Len(d) + 3) \div 4
        p == PadLeft(d, 4 * n)
    IN  [i \in 1..n |->
            1000 * p[4 * i - 3] + 100 * p[4 * i - 2] + 10 * p[4 * i - 1] + p[4 * i]]

FromLimbs(l) ==
    Strip([j \in 1..(4 * Len(l)) |->
              (l[((j - 1) \div 4) + 1] \div <<1000, 100, 10, 1>>[((j - 1) % 4) + 1]) % 10])

\* x * y, multiplied four digits at a time; a zero or a one as an operand
\* decides the product without a multiplication
MulD(x, y) ==
    IF IsZeroD(x) \/ IsZeroD(y) THEN <<0>>
    ELSE IF x = <<1>> THEN Strip(y)
    ELSE IF y = <<1>> THEN Strip(x)
    ELSE IF Len(x) = 1 \/ Len(y) = 1
    THEN MulRange(x, y, 1, Len(y), 10)
    ELSE LET lx == ToLimbs(x)
             ly == ToLimbs(y)
         IN  FromLimbs(MulRange(lx, ly, 1, Len(ly), 10000))

RECURSIVE NatDigits(_)
NatDigits(n) == IF n < 10 THEN <<n>> ELSE Append(NatDigits(n \div 10), n % 10)

(***************************************************************************)
(* Python values, exceptions and decimal.Decimal.                          *)
(***************************************************************************)
NoneVal == [t |-> "NoneType"]

IntVal(n) == [t |-> "int", v |-> n]

StrVal(chars) == [t |-> "str", chars |-> chars]

\* the float (-1)^s * m / 2^q (m a digit sequence, q >= 0)
FloatVal(s, m, q) == [t |-> "float", k |-> "exact", s |-> s, m |-> m, q |-> q]

\* a float computed by math.acos or math.degrees, whose value is not modelled
ApproxFloat == [t |-> "float", k |-> "approx"]

ListVal(items) == [t |-> "list", items |-> items]

BoolVal(x) == [t |-> "bool", truth |-> x]

\* a raised exception: its class and its message
Raise(exc, msg) == [t |-> "raise", exc |-> exc, msg |-> msg]

IsRaise(x) == x.t = "raise"

Fin(s, c, e) == [t |-> "Decimal", k |-> "fin", s |-> s, c |-> c, e |-> e]

Inf(s) == [t |-> "Decimal", k |-> "inf", s |-> s, c |-> <<0>>, e |-> 0]

\* a quiet NaN (its sign and payload are not modelled)
NaN == [t |-> "Decimal", k |-> "nan", s |-> 0, c |-> <<0>>, e |-> 0]

\* a signalling NaN
SNaN == [t |-> "Decimal", k |-> "snan", s |-> 0, c |-> <<0>>, e |-> 0]

DZero == Fin(0, <<0>>, 0)

(***************************************************************************)
(* math.sqrt, math.acos and math.degrees compute in binary floating point, *)
(* which the model does not reproduce.  A finite Decimal whose digits      *)
(* depend on such a float is kept as its sign class alone: sg is "pos" or  *)
(* "neg" (not zero, of that sign), "zero" (a zero whose exponent is not    *)
(* modelled) or "any" (finite, of unknown sign, possibly zero).  The class *)
(* decides every exception the arithmetic on such a value can raise.       *)
(***************************************************************************)
Approx(sg) == [t |-> "Decimal", k |-> "approx", sg |-> sg]

IsApprox(d) == d.k = "approx"

\* the sign class of a finite Decimal
Sg(d) ==
    IF d.k = "approx" THEN d.sg
    ELSE IF \A i \in 1..Len(d.c) : d.c[i] = 0 THEN "zero"
    ELSE IF d.s = 0 THEN "pos" ELSE "neg"

NegSg(sg) == CASE sg = "pos" -> "neg" [] sg = "neg" -> "pos" [] OTHER -> sg

\* an operand combination the class cannot decide (an infinity times a finite
\* value that may be zero); NoUnmodelled states that it is never reached
Unmodelled == Raise("Unmodelled", "")

\* the InvalidOperation signal, which the default context traps
Signal == Raise("decimal.InvalidOperation", "")

IsFinite(d) == d.k \in {"fin", "approx"}

IsZeroDec(d) == (d.k = "fin" /\ IsZeroD(d.c)) \/ (d.k = "approx" /\ d.sg = "zero")

\* the class of x + y for finite x and y, one of them known by its class alone
ClassAdd(x, y) ==
    LET sx == Sg(x)
        sy == Sg(y)
    IN  Approx(IF sx = "zero" THEN sy
               ELSE IF sy = "zero" \/ sx = sy THEN sx
               ELSE "any")

\* the class of x * y (or of x / y, y not zero) for such x and y
ClassMul(x, y) ==
    LET sx == Sg(x)
        sy == Sg(y)
    IN  Approx(IF sx = "zero" \/ sy = "zero" THEN "zero"
               ELSE IF sx = "any" \/ sy = "any" THEN "any"
               ELSE IF sx = sy THEN "pos" ELSE "neg")

\* Decimal._fix under ROUND_HALF_EVEN: at most Prec digits of coefficient
Fix(d) ==
    IF d.k # "fin" \/ Len(d.c) <= Prec THEN d
    ELSE LET n       == Len(d.c)
             k       == n - Prec
             kept    == SubSeq(d.c, 1, Prec)
             dropped == SubSeq(d.c, Prec + 1, n)
             cmp     == LexCmp(dropped, <<5>> \o Zeros(k - 1))
             up      == cmp > 0 \/ (cmp = 0 /\ kept[Prec] % 2 = 1)
         IN  Let(IF up THEN AddD(kept, <<1>>) ELSE kept,
                 LAMBDA r : IF Len(r) > Prec
                            THEN Fin(d.s, SubSeq(r, 1, Prec), d.e + k + 1)
                            ELSE Fin(d.s, r, d.e + k))

\* the coefficient of d at the exponent e <= d.e
Aligned(d, e) == IF IsZeroD(d.c) THEN <<0>> ELSE d.c \o Zeros(d.e - e)

\* Decimal.__add__
DAdd(x, y) ==
    IF x.k = "snan" \/ y.k = "snan" THEN Signal
    ELSE IF x.k = "nan" \/ y.k = "nan" THEN NaN
    ELSE IF x.k = "inf"
         THEN IF y.k = "inf" /\ y.s # x.s THEN Signal ELSE x
    ELSE IF y.k = "inf" THEN y
    ELSE IF IsApprox(x) \/ IsApprox(y) THEN ClassAdd(x, y)
    ELSE LET e   == Min(x.e, y.e)
             cx  == Aligned(x, e)
             cy  == Aligned(y, e)
         IN  Fix(IF x.s = y.s THEN Fin(x.s, AddD(cx, cy), e)
                 ELSE Let(CmpD(cx, cy),
                          LAMBDA cmp : IF cmp = 0 THEN Fin(0, <<0>>, e)
                                       ELSE IF cmp > 0 THEN Fin(x.s, SubD(cx, cy), e)
                                       ELSE Fin(y.s, SubD(cy, cx), e)))

\* Decimal.copy_negate
CopyNegate(x) ==
    IF IsApprox(x) THEN Approx(NegSg(x.sg)) ELSE [x EXCEPT !.s = 1 - x.s]

\* Decimal.__sub__
DSub(x, y) ==
    IF x.k = "snan" \/ y.k = "snan" THEN Signal
    ELSE IF x.k = "nan" \/ y.k = "nan" THEN NaN
    ELSE DAdd(x, CopyNegate(y))

\* Decimal.__mul__
DMul(x, y) ==
    IF x.k = "snan" \/ y.k = "snan" THEN Signal
    ELSE IF x.k = "nan" \/ y.k = "nan" THEN NaN
    ELSE IF x.k = "inf" \/ y.k = "inf"
         THEN LET f == IF x.k = "inf" THEN y ELSE x
                  i == IF x.k = "inf" THEN x ELSE y
              IN  IF f.k = "inf" THEN Inf((x.s + y.s) % 2)
                  ELSE IF Sg(f) = "zero" THEN Signal
                  ELSE IF Sg(f) = "any" THEN Unmodelled
                  ELSE Inf(IF (Sg(f) = "neg") = (i.s = 1) THEN 0 ELSE 1)
    ELSE IF IsApprox(x) \/ IsApprox(y) THEN ClassMul(x, y)
    ELSE Fix(Fin((x.s + y.s) % 2, MulD(x.c, y.c), x.e + y.e))

\* Decimal.__neg__
DNeg(x) ==
    IF x.k = "snan" THEN Signal
    ELSE IF x.k = "nan" THEN NaN
    ELSE IF IsApprox(x) THEN CopyNegate(x)
    ELSE IF IsZeroDec(x) THEN Fix([x EXCEPT !.s = 0])
    ELSE Fix(CopyNegate(x))

\* Decimal.__eq__ (a signalling NaN raises, a quiet NaN equals nothing)
DEq(x, y) ==
    IF x.k = "snan" \/ y.k = "snan" THEN Signal
    ELSE IF x.k = "nan" \/ y.k = "nan" THEN BoolVal(FALSE)
    ELSE IF x.k = "inf" \/ y.k = "inf"
         THEN BoolVal(x.k = y.k /\ x.s = y.s)
    ELSE IF IsZeroD(x.c) \/ IsZeroD(y.c)
         THEN BoolVal(IsZeroD(x.c) /\ IsZeroD(y.c))
    ELSE LET e == Min(x.e, y.e)
         IN  BoolVal(x.s = y.s /\ CmpD(Aligned(x, e), Aligned(y, e)) = 0)

\* Decimal.__abs__
DAbs(x) ==
    IF x.k = "snan" THEN Signal
    ELSE IF x.k = "nan" THEN NaN
    ELSE IF x.k = "inf" THEN Inf(0)
    ELSE IF IsApprox(x) THEN Approx(IF x.sg = "neg" THEN "pos" ELSE x.sg)
    ELSE Fix([x EXCEPT !.s = 0])

\* -1, 0 or 1 as x < y, x = y or x > y, for exact finite x and y
SignedCmp(x, y) ==
    LET zx == IsZeroD(x.c)
        zy == IsZeroD(y.c)
        e  == Min(x.e, y.e)
        c  == CmpD(Aligned(x, e), Aligned(y, e))
    IN  IF zx /\ zy THEN 0
        ELSE IF zx THEN (IF y.s = 0 THEN -1 ELSE 1)
        ELSE IF zy THEN (IF x.s = 0 THEN 1 ELSE -1)
        ELSE IF x.s # y.s THEN (IF x.s = 1 THEN -1 ELSE 1)
        ELSE IF x.s = 0 THEN c ELSE 0 - c

\* Decimal.__lt__ against an exact finite y (a NaN raises)
DLt(x, y) ==
    IF x.k \in {"nan", "snan"} THEN Signal
    ELSE IF x.k = "inf" THEN BoolVal(x.s = 1)
    ELSE BoolVal(SignedCmp(x, y) < 0)

\* Decimal.__truediv__, to the class of a finite quotient
DDiv(x, y) ==
    IF x.k = "snan" \/ y.k = "snan" THEN Signal
    ELSE IF x.k = "nan" \/ y.k = "nan" THEN NaN
    ELSE IF x.k = "inf"
         THEN IF y.k = "inf" THEN Signal
              ELSE IF Sg(y) = "any" THEN Unmodelled
              ELSE Inf(IF (Sg(y) = "neg") = (x.s = 1) THEN 0 ELSE 1)
    ELSE IF y.k = "inf" THEN Approx("zero")
    ELSE IF Sg(y) = "any" THEN Unmodelled
    ELSE IF Sg(y) = "zero"
         THEN IF Sg(x) = "zero" THEN Signal
              ELSE Raise("decimal.DivisionByZero", "")
    ELSE ClassMul(x, y)

(***************************************************************************)
(* Decimal(x): the conversion of a Python value.  A string is a sequence   *)
(* of characters over the digits, the signs, the point, and the letters of *)
(* the exponent and of the special values; blanks and underscores are not  *)
(* in the alphabet of the model.                                           *)
(***************************************************************************)
DigitChars == <<"0", "1", "2", "3", "4", "5", "6", "7", "8", "9">>

IsDigitChar(ch) == \E i \in 1..10 : DigitChars[i] = ch

DigitVal(ch) == (CHOOSE i \in 1..10 : DigitChars[i] = ch) - 1

Lower(ch) ==
    CASE ch = "I" -> "i" [] ch = "N" -> "n" [] ch = "F" -> "f"
      [] ch = "T" -> "t" [] ch = "Y" -> "y" [] ch = "A" -> "a"
      [] ch = "S" -> "s" [] ch = "E" -> "e" [] OTHER -> ch

AllDigits(chars) == \A i \in 1..Len(chars) : IsDigitChar(chars[i])

ToDigits(chars) == [i \in 1..Len(chars) |-> DigitVal(chars[i])]

RECURSIVE DigitsToInt(_, _)
DigitsToInt(d, i) ==
    IF i = 0 THEN 0 ELSE 10 * DigitsToInt(d, i - 1) + d[i]

\* the index of the first occurrence of ch in chars, or 0
IndexOf(chars, ch) ==
    IF \E i \in 1..Len(chars) : chars[i] = ch
    THEN CHOOSE i \in 1..Len(chars) :
             chars[i] = ch /\ \A j \in 1..(i - 1) : chars[j] # ch
    ELSE 0

HasPrefix(chars, p) == Len(chars) >= Len(p) /\ SubSeq(chars, 1, Len(p)) = p

\* the number syntax: digits with at most one point, then an optional exponent
ParseNumber(s, low) ==
    LET epos  == IndexOf(low, "e")
        mant  == IF epos = 0 THEN low ELSE SubSeq(low, 1, epos - 1)
        expo  == IF epos = 0 THEN <<>> ELSE SubSeq(low, epos + 1, Len(low))
        esign == expo # <<>> /\ expo[1] \in {"+", "-"}
        edig  == IF esign THEN Tail(expo) ELSE expo
        dot   == IndexOf(mant, ".")
        ipart == IF dot = 0 THEN mant ELSE SubSeq(mant, 1, dot - 1)
        fpart == IF dot = 0 THEN <<>> ELSE SubSeq(mant, dot + 1, Len(mant))
        okm   == AllDigits(ipart) /\ AllDigits(fpart) /\ Len(ipart) + Len(fpart) > 0
        oke   == epos = 0 \/ (edig # <<>> /\ AllDigits(edig))
        eabs  == IF epos = 0 THEN 0 ELSE DigitsToInt(ToDigits(edig), Len(edig))
        eval  == IF esign /\ expo[1] = "-" THEN 0 - eabs ELSE eabs
    IN  IF okm /\ oke
        THEN Fin(s, Strip(ToDigits(ipart \o fpart)), eval - Len(fpart))
        ELSE Signal

\* Decimal(str)
ParseDecimal(chars) ==
    LET signed == chars # <<>> /\ chars[1] \in {"+", "-"}
        s      == IF signed /\ chars[1] = "-" THEN 1 ELSE 0
        body   == IF signed THEN Tail(chars) ELSE chars
        low    == [i \in 1..Len(body) |-> Lower(body[i])]
    IN  IF low \in {<<"i", "n", "f">>, <<"i", "n", "f", "i", "n", "i", "t", "y">>}
        THEN Inf(s)
        ELSE IF HasPrefix(low, <<"n", "a", "n">>) /\ AllDigits(SubSeq(low, 4, Len(low)))
        THEN NaN
        ELSE IF HasPrefix(low, <<"s", "n", "a", "n">>) /\ AllDigits(SubSeq(low, 5, Len(low)))
        THEN SNaN
        ELSE ParseNumber(s, low)

RECURSIVE Pow5(_)
Pow5(q) ==
    IF q = 0 THEN <<1>>
    ELSE IF q % 2 = 1 THEN MulD(Pow5(q - 1), <<5>>)
    ELSE Let(Pow5(q \div 2), LAMBDA h : MulD(h, h))

Abs(n) == IF n < 0 THEN 0 - n ELSE n

\* Decimal(x), which never rounds
ToDecimal(x) ==
    CASE x.t = "Decimal" -> x
      [] x.t = "int" -> Fin(IF x.v < 0 THEN 1 ELSE 0, NatDigits(Abs(x.v)), 0)
      [] x.t = "float" -> Fin(x.s, MulD(x.m, Pow5(x.q)), 0 - x.q)
      [] x.t = "str" -> ParseDecimal(x.chars)
      [] OTHER -> Raise("TypeError", "conversion to Decimal is not supported")

(***************************************************************************)
(* The Vector type: construction and the operations on exact decimals.     *)
(***************************************************************************)
IsVector(x) == x.t = "Vector"

\* isinstance(x, numbers.Number)
IsNumber(x) == x.t \in {"int", "float", "Decimal"}

\* not x
Falsy(x) ==
    CASE x.t = "NoneType" -> TRUE
      [] x.t = "int" -> x.v = 0
      [] x.t = "float" -> x.k = "exact" /\ IsZeroD(x.m)
      [] x.t = "list" -> x.items = <<>>
      [] x.t = "str" -> x.chars = <<>>
      [] x.t = "Decimal" -> IsZeroDec(x)
      [] OTHER -> FALSE

\* whether "for x in v" and len(v) are defined
Iterable(x) == x.t \in {"list", "str"}

\* the elements "for x in v" yields (a string yields its characters)
Items(x) ==
    IF x.t = "str" THEN [i \in 1..Len(x.chars) |-> StrVal(<<x.chars[i]>>)]
    ELSE x.items

\* A list comprehension: its elements are evaluated in order, and the first
\* one that raises ends the evaluation.
Comprehension(elems) ==
    IF \E i \in 1..Len(elems) : IsRaise(elems[i])
    THEN elems[CHOOSE i \in 1..Len(elems) :
                   IsRaise(elems[i]) /\ \A j \in 1..(i - 1) : ~IsRaise(elems[j])]
    ELSE ListVal(elems)

\* Vector.__init__ without its test "if not coordinates"
NewVectorUnchecked(coordinates) ==
    IF ~Iterable(coordinates)
    THEN Raise("TypeError", "The coordinates must be iterable")
    ELSE LET items == Items(coordinates)
         IN  Let(Comprehension([i \in 1..Len(items) |-> ToDecimal(items[i])]),
                 LAMBDA conv :
                     IF IsRaise(conv)
                     THEN IF conv.exc = "decimal.InvalidOperation"
                          THEN Raise("decimal.InvalidOperation",
                                     "The coordinates must be a valid number")
                          ELSE Raise("TypeError", "The coordinates must be iterable")
                     ELSE [t |-> "Vector", coordinates |-> conv.items,
                           dimension |-> Len(items)])

\* Vector.__init__: the new Vector, or the exception raised
NewVector(coordinates) ==
    IF Falsy(coordinates) THEN Raise("ValueError", "")
    ELSE IF ~Iterable(coordinates)
    THEN Raise("TypeError", "The coordinates must be iterable")
    ELSE LET items == Items(coordinates)
         IN  Let(Comprehension([i \in 1..Len(items) |-> ToDecimal(items[i])]),
                 LAMBDA conv :
                     IF IsRaise(conv)
                     THEN IF conv.exc = "decimal.InvalidOperation"
                          THEN Raise("decimal.InvalidOperation",
                                     "The coordinates must be a valid number")
                          ELSE Raise("TypeError", "The coordinates must be iterable")
                     ELSE [t |-> "Vector", coordinates |-> conv.items,
                           dimension |-> Len(items)])

NotAVector == Raise("TypeError", "Argument must be a vector")

\* v.coordinates[i] (i counted from 1)
Coordinate(v, i) ==
    IF i > Len(v.coordinates) THEN Raise("IndexError", "tuple index out of range")
    ELSE v.coordinates[i]

\* a binary operation of Decimal applied to operands that may have raised
Lift2(Op(_, _), x, y) ==
    IF IsRaise(x) THEN x ELSE IF IsRaise(y) THEN y ELSE Op(x, y)

Lift1(Op(_), x) == IF IsRaise(x) THEN x ELSE Op(x)

\* sum(list): 0 + list[0] + list[1] + ...
RECURSIVE SumTo(_, _)
SumTo(elems, n) ==
    IF n = 0 THEN ToDecimal(IntVal(0))
    ELSE Lift2(DAdd, SumTo(elems, n - 1), elems[n])

\* Vector.dot
Dot(self, v) ==
    IF ~IsVector(v) THEN NotAVector
    ELSE Let(Comprehension([i \in 1..Len(self.coordinates) |->
                 Lift2(DMul, self.coordinates[i], Coordinate(v, i))]),
             LAMBDA prods : IF IsRaise(prods) THEN prods
                            ELSE SumTo(prods.items, Len(prods.items)))

\* Vector.cross
Cross(self, v) ==
    IF ~IsVector(v) THEN NotAVector
    ELSE IF ~(self.dimension = v.dimension /\ v.dimension = 3)
    THEN Raise("NotImplementedError", "")
    ELSE LET x1 == self.coordinates[1]
             y1 == self.coordinates[2]
             z1 == self.coordinates[3]
             x2 == v.coordinates[1]
             y2 == v.coordinates[2]
             z2 == v.coordinates[3]
             x  == Lift2(DSub, DMul(y1, z2), DMul(y2, z1))
             y  == Lift1(DNeg, Lift2(DSub, DMul(x1, z2), DMul(x2, z1)))
             z  == Lift2(DSub, DMul(x1, y2), DMul(x2, y1))
         IN  Let(Comprehension(<<x, y, z>>),
                 LAMBDA xyz : IF IsRaise(xyz) THEN xyz ELSE NewVector(xyz))

\* Vector.__add__ (and __radd__, which is the same function)
Add(self, v) ==
    IF ~IsVector(v) THEN Raise("TypeError", "You can only add two vectors")
    ELSE Let(Comprehension([i \in 1..Len(self.coordinates) |->
                 Lift2(DAdd, self.coordinates[i], Coordinate(v, i))]),
             LAMBDA sums : IF IsRaise(sums) THEN sums ELSE NewVector(sums))

\* Vector.__sub__ (and __rsub__, which is the same function)
Sub(self, v) ==
    IF ~IsVector(v) THEN Raise("TypeError", "You can only add two vectors")
    ELSE Let(Comprehension([i \in 1..Len(self.coordinates) |->
                 Lift2(DSub, self.coordinates[i], Coordinate(v, i))]),
             LAMBDA diffs : IF IsRaise(diffs) THEN diffs ELSE NewVector(diffs))

\* Decimal * number: an int is converted, a float is not supported
DMulNumber(x, n) ==
    IF n.t = "float"
    THEN Raise("TypeError", "unsupported operand type(s) for *")
    ELSE DMul(x, ToDecimal(n))

\* the number branch of Vector.__mul__: the coordinates times a number
Scale(self, n) ==
    Let(Comprehension([i \in 1..Len(self.coordinates) |->
            DMulNumber(self.coordinates[i], n)]),
        LAMBDA prods : IF IsRaise(prods) THEN prods ELSE NewVector(prods))

\* Vector.__mul__ (and __rmul__, which is the same function)
Mul(self, v) ==
    IF IsNumber(v) THEN Scale(self, v)
    ELSE IF IsVector(v) THEN Cross(self, v)
    ELSE Raise("TypeError", "Argument must be number or a vector")

\* tuple == tuple: the first pair of unequal items decides, then the lengths
RECURSIVE TupleEq(_, _, _)
TupleEq(x, y, i) ==
    IF i > Len(x) \/ i > Len(y) THEN BoolVal(Len(x) = Len(y))
    ELSE Let(DEq(x[i], y[i]),
             LAMBDA r : IF IsRaise(r) \/ ~r.truth THEN r ELSE TupleEq(x, y, i + 1))

\* Vector.__eq__ of two distinct objects
Eq(self, v) ==
    IF ~IsVector(v)
    THEN Raise("AttributeError", "object has no attribute 'coordinates'")
    ELSE TupleEq(self.coordinates, v.coordinates, 1)

(***************************************************************************)
(* The operations that pass through math.sqrt and math.acos.               *)
(***************************************************************************)
\* the default tolerance 1e-10, a float: 7737125245533627 / 2^86
Tolerance ==
    ToDecimal(FloatVal(0, <<7, 7, 3, 7, 1, 2, 5, 2, 4, 5, 5, 3, 3, 6, 2, 7>>, 86))

\* 1e-20: math.sqrt(s) < 1e-10 is decided as s < 1e-20 (up to the rounding of
\* the square root next to that value)
ToleranceSquared == Fin(0, <<1>>, -20)

\* x**2
Square(x) == DMul(x, x)

\* sum([x**2 for x in self.coordinates])
SumOfSquares(self) ==
    Let(Comprehension([i \in 1..Len(self.coordinates) |->
            Square(self.coordinates[i])]),
        LAMBDA sq : IF IsRaise(sq) THEN sq ELSE SumTo(sq.items, Len(sq.items)))

\* Decimal(math.sqrt(s)) for s >= 0
SqrtOf(s) ==
    IF s.k = "nan" THEN NaN
    ELSE IF s.k = "inf" THEN Inf(0)
    ELSE IF Sg(s) = "zero" THEN DZero
    ELSE Approx("pos")

\* Vector.mag
Mag(self) == Lift1(SqrtOf, SumOfSquares(self))

\* Vector.norm
Norm(self) ==
    Let(Mag(self),
        LAMBDA m :
            IF IsRaise(m) THEN m
            ELSE IF IsZeroDec(m)
            THEN Raise("ZeroDivisionError", "Cannot normalize the zero vector")
            ELSE Let(DDiv(ToDecimal(FloatVal(0, <<1>>, 0)), m),
                     LAMBDA f : IF IsRaise(f) THEN f ELSE Mul(self, f)))

\* Vector.area_of_parallelogram
AreaOfParallelogram(self, v) ==
    IF ~IsVector(v) THEN NotAVector
    ELSE Let(Cross(self, v), LAMBDA c : IF IsRaise(c) THEN c ELSE Mag(c))

\* Vector.area_of_triangle
AreaOfTriangle(self, v) ==
    IF ~IsVector(v) THEN NotAVector
    ELSE Lift2(DDiv, AreaOfParallelogram(self, v), ToDecimal(IntVal(2)))

\* Vector.__clean_angle: Decimal(min(1, max(a, -1))), where only the comparison
\* with a NaN raises
CleanAngle(x) ==
    IF x.k \in {"nan", "snan"} THEN Signal
    ELSE IF x.k = "inf" THEN Fin(x.s, <<1>>, 0)
    ELSE Approx("any")

\* Vector.theta
Theta(self, v) ==
    IF ~IsVector(v) THEN NotAVector
    ELSE Let(Lift2(DMul, Mag(self), Mag(v)),
             LAMBDA mag_product :
                 IF IsRaise(mag_product) THEN mag_product
                 ELSE IF IsZeroDec(mag_product)
                 THEN Raise("Exception", "Cannot find angle for a zero vector")
                 ELSE Let(Lift1(CleanAngle, Lift2(DDiv, Dot(self, v), mag_product)),
                          LAMBDA c : IF IsRaise(c) THEN c ELSE ApproxFloat))

\* Vector.proj_on
ProjOn(self, v) ==
    IF ~IsVector(v) THEN NotAVector
    ELSE Let(Norm(v),
             LAMBDA n :
                 IF IsRaise(n) THEN n
                 ELSE Let(Dot(self, n), LAMBDA d : IF IsRaise(d) THEN d ELSE Mul(n, d)))

\* Vector.orthogonal_to
OrthogonalTo(self, v) ==
    IF ~IsVector(v) THEN NotAVector
    ELSE Let(ProjOn(self, v), LAMBDA p : IF IsRaise(p) THEN p ELSE Sub(self, p))

\* Vector.decompose
Decompose(self, v) ==
    IF ~IsVector(v) THEN NotAVector
    ELSE Let(ProjOn(self, v),
             LAMBDA p :
                 IF IsRaise(p) THEN p
                 ELSE Let(OrthogonalTo(self, v),
                          LAMBDA o : IF IsRaise(o) THEN o
                                     ELSE [t |-> "tuple", pair |-> <<p, o>>]))

\* Vector.is_zero with the default tolerance
IsZero(self) ==
    Let(SumOfSquares(self), LAMBDA s : IF IsRaise(s) THEN s ELSE DLt(s, ToleranceSquared))

\* Vector.is_orthogonal_to with the default tolerance
IsOrthogonalTo(self, v) ==
    IF ~IsVector(v) THEN NotAVector
    ELSE Let(Lift1(DAbs, Dot(self, v)),
             LAMBDA d : IF IsRaise(d) THEN d ELSE DLt(d, Tolerance))

\* Vector.is_parallel_to: the set of its possible outcomes.  Whether the float
\* math.acos returns equals 0 or pi is not decided by the model: where the
\* code compares the angle, both answers are outcomes.
IsParallelTo(self, v) ==
    IF ~IsVector(v) THEN {NotAVector}
    ELSE Let(IsZero(self),
             LAMBDA z1 :
                 IF IsRaise(z1) \/ z1.truth THEN {z1}
                 ELSE Let(IsZero(v),
                          LAMBDA z2 :
                              IF IsRaise(z2) \/ z2.truth THEN {z2}
                              ELSE Let(Theta(self, v),
                                       LAMBDA th : IF IsRaise(th) THEN {th}
                                                   ELSE {BoolVal(TRUE), BoolVal(FALSE)})))

(***************************************************************************)
(* The state: a program that binds a receiver a and an argument b, each    *)
(* once, and then calls the operations of a on b in any order.  last       *)
(* records the latest call: its name, its input (for a construction) and   *)
(* its outcome, a value or a raised exception.  pool is the set of         *)
(* literals the program builds its coordinate lists from.                  *)
(***************************************************************************)
Unbound == [t |-> "unbound"]

Call(op, arg, out) == [op |-> op, arg |-> arg, out |-> out]

\* a 31-digit integer: one digit more than the context's precision
Big ==
    StrVal(<<"1", "0", "0", "0", "0", "0", "0", "0", "0", "0", "0",
             "0", "0", "0", "0", "0", "0", "0", "0", "0", "0",
             "0", "0", "0", "0", "0", "0", "0", "0", "0", "1">>)

Infinity == StrVal(<<"I", "n", "f", "i", "n", "i", "t", "y">>)

NotANumber == StrVal(<<"N", "a", "N">>)

\* the pools of the program that calls the operations: one with a coefficient
\* longer than the precision, one with an infinity, one with a NaN
Pools ==
    {{IntVal(0), Big},
     {IntVal(1), Infinity},
     {StrVal(<<"-", "2", ".", "5">>), NotANumber}}

\* the pool of the program that only constructs: an element of every type the
\* conversion accepts
AllElems ==
    {IntVal(0), IntVal(-2), StrVal(<<"1", ".", "5">>), Big,
     FloatVal(0, <<1>>, 1), ToDecimal(StrVal(<<"2", ".", "5">>)),
     Infinity, NotANumber}

\* elements the conversion to Decimal rejects
BadElems == {StrVal(<<"a", "b", "c">>), NoneVal}

\* the sequences over S of length 0 .. n
RECURSIVE SeqsUpTo(_, _)
SeqsUpTo(S, n) ==
    IF n = 0 THEN {<<>>}
    ELSE LET shorter == SeqsUpTo(S, n - 1)
         IN  shorter \cup {Append(q, x) : q \in {r \in shorter : Len(r) = n - 1}, x \in S}

InsertAt(q, i, x) == SubSeq(q, 1, i - 1) \o <<x>> \o SubSeq(q, i, Len(q))

\* what is not a list: falsy and truthy non-iterables, and strings
NonLists ==
    {IntVal(0), IntVal(5), NoneVal, StrVal(<<>>), StrVal(<<"1", "2">>),
     StrVal(<<"a", "b", "c">>)}

\* the lists over the elements E
Lists(E) == {ListVal(q) : q \in SeqsUpTo(E, MaxLen)}

\* the lists with one rejected element, at any place among elements of E
BadLists(E) ==
    UNION {{ListVal(InsertAt(q, i, x)) : i \in 1..(Len(q) + 1), x \in BadElems} :
              q \in SeqsUpTo(E, MaxLen - 1)}

\* the inputs of the constructor in the program that calls the operations:
\* the lists over its pool, a list of each rejected element, and what is not
\* a list
Inputs ==
    [E \in Pools |-> Lists(E) \cup {ListVal(<<x>>) : x \in BadElems} \cup NonLists]

\* the inputs of the constructor in the program that only constructs
ConstructInputs == Lists(AllElems) \cup BadLists(AllElems) \cup NonLists

\* the arguments that are not Vectors
NonVectors ==
    {IntVal(2), IntVal(-1), FloatVal(0, <<3>>, 1), ToDecimal(StrVal(<<"1", ".", "5">>)),
     NoneVal, StrVal(<<"x">>)}

Init ==
    /\ a = Unbound
    /\ b = Unbound
    /\ last = Call("none", NoneVal, NoneVal)
    /\ pool \in Pools

\* a = Vector(c)
Construct(c) ==
    /\ a = Unbound
    /\ LET r == NewVector(c)
       IN  /\ a' = IF IsRaise(r) THEN a ELSE r
           /\ last' = Call("construct", c, r)
    /\ UNCHANGED <<b, pool>>

\* b = Vector(c)
ConstructArg(c) ==
    /\ b = Unbound
    /\ LET r == NewVector(c)
       IN  /\ b' = IF IsRaise(r) THEN b ELSE r
           /\ last' = Call("construct_arg", c, r)
    /\ UNCHANGED <<a, pool>>

\* b = x, for an x that is not a Vector
BindArg(x) ==
    /\ b = Unbound
    /\ b' = x
    /\ last' = Call("bind_arg", x, NoneVal)
    /\ UNCHANGED <<a, pool>>

\* a method that stores the Vector it computes in self instead of leaving self
\* alone
ReturnsInPlace(op, out) ==
    /\ last' = Call(op, NoneVal, out)
    /\ a' = IF IsVector(out) THEN out ELSE a
    /\ UNCHANGED <<b, pool>>

\* a method of a returns out (a value or a raised exception) to its caller:
\* self.coordinates and self.dimension are assigned in __init__ only, and no
\* method assigns to an attribute of its argument
Returns(op, out) ==
    /\ last' = Call(op, NoneVal, out)
    /\ UNCHANGED <<a, b, pool>>

Ready == IsVector(a) /\ b # Unbound

MagStep == IsVector(a) /\ Returns("mag", Mag(a))

NormStep == IsVector(a) /\ Returns("norm", Norm(a))

IsZeroStep == IsVector(a) /\ Returns("is_zero", IsZero(a))

DotStep == Ready /\ Returns("dot", Dot(a, b))

CrossStep == Ready /\ Returns("cross", Cross(a, b))

AreaOfParallelogramStep ==
    Ready /\ Returns("area_of_parallelogram", AreaOfParallelogram(a, b))

AreaOfTriangleStep == Ready /\ Returns("area_of_triangle", AreaOfTriangle(a, b))

ThetaStep == Ready /\ Returns("theta", Theta(a, b))

ProjOnStep == Ready /\ Returns("proj_on", ProjOn(a, b))

OrthogonalToStep == Ready /\ Returns("orthogonal_to", OrthogonalTo(a, b))

DecomposeStep == Ready /\ Returns("decompose", Decompose(a, b))

IsOrthogonalToStep == Ready /\ Returns("is_orthogonal_to", IsOrthogonalTo(a, b))

IsParallelToStep ==
    Ready /\ \E out \in IsParallelTo(a, b) : Returns("is_parallel_to", out)

\* a + b, which calls a.__add__(b)
AddStep == Ready /\ Returns("add", Add(a, b))

\* a - b, which calls a.__sub__(b)
SubStep == Ready /\ Returns("sub", Sub(a, b))

\* a * b, which calls a.__mul__(b)
MulStep == Ready /\ Returns("mul", Mul(a, b))

\* b * a for a b that is not a Vector, which calls a.__rmul__(b)
RMulStep == Ready /\ ~IsVector(b) /\ Returns("rmul", Mul(a, b))

\* a == b
EqStep == Ready /\ Returns("eq", Eq(a, b))

Next ==
    \/ \E c \in Inputs[pool] : Construct(c)
    \/ \E c \in Inputs[pool] : ConstructArg(c)
    \/ \E x \in NonVectors : BindArg(x)
    \/ MagStep
    \/ NormStep
    \/ IsZeroStep
    \/ DotStep
    \/ CrossStep
    \/ AreaOfParallelogramStep
    \/ AreaOfTriangleStep
    \/ ThetaStep
    \/ ProjOnStep
    \/ OrthogonalToStep
    \/ DecomposeStep
    \/ IsOrthogonalToStep
    \/ IsParallelToStep
    \/ AddStep
    \/ SubStep
    \/ MulStep
    \/ RMulStep
    \/ EqStep

Spec == Init /\ [][Next]_vars

\* the program that only constructs
InitConstruct ==
    /\ a = Unbound
    /\ b = Unbound
    /\ last = Call("none", NoneVal, NoneVal)
    /\ pool = AllElems

\* one construction, from the initial state
NextConstruct == last.op = "none" /\ \E c \in ConstructInputs : Construct(c)

SpecConstruct == InitConstruct /\ [][NextConstruct]_vars

(***************************************************************************)
(* The error kinds of the specification, as the exceptions of the code.    *)
(***************************************************************************)
EmptyVectorError == Raise("ValueError", "")

NotIterableError == Raise("TypeError", "The coordinates must be iterable")

InvalidNumberError ==
    Raise("decimal.InvalidOperation", "The coordinates must be a valid number")

NotAVectorError == Raise("TypeError", "Argument must be a vector")

UnsupportedDimensionError == Raise("NotImplementedError", "")

InvalidOperandError == Raise("TypeError", "Argument must be number or a vector")

\* the classes of the eight kinds: ValueError, TypeError (NotIterableError,
\* NotAVectorError, InvalidOperandError), decimal.InvalidOperation,
\* NotImplementedError, ZeroDivisionError and Exception (ZeroMagnitudeError)
TaxonomyClasses ==
    {"ValueError", "TypeError", "decimal.InvalidOperation", "NotImplementedError",
     "ZeroDivisionError", "Exception"}

IndexOutOfRange == Raise("IndexError", "tuple index out of range")

(***************************************************************************)
(* The claims.                                                             *)
(***************************************************************************)
\* the model decides every outcome: no operation meets an operand combination
\* that the sign classes leave open
NoUnmodelled == last.out # Unmodelled

Constructed == last.op \in {"construct", "construct_arg"}

\* the variable the last construction binds
Target == IF last.op = "construct" THEN a ELSE b

\* the conversion accepts x
Valid(x) == ~IsRaise(ToDecimal(x))

\* the conversion accepts x and yields a finite number
ValidFinite(x) == Valid(x) /\ ToDecimal(x).k = "fin"

AllFinite(v) == \A i \in 1..Len(v.coordinates) : IsFinite(v.coordinates[i])

\* the Vectors of a value: itself, or the members of a tuple
VectorsOf(x) ==
    IF IsVector(x) THEN {x}
    ELSE IF x.t = "tuple" THEN {x.pair[1], x.pair[2]}
    ELSE {}

\* C1: a construction from a non-empty sequence of elements the conversion
\* accepts succeeds, and its Vector has the converted elements in order and the
\* length of the sequence as dimension; a construction from an empty sequence
\* fails with EmptyVectorError and binds no Vector.
C1_Construction ==
    (Constructed /\ Iterable(last.arg)) =>
        LET c == Items(last.arg)
        IN  /\ Len(c) = 0 => (last.out = EmptyVectorError /\ Target = Unbound)
            /\ (Len(c) > 0 /\ \A i \in 1..Len(c) : Valid(c[i])) =>
                   /\ IsVector(last.out)
                   /\ Target = last.out
                   /\ last.out.dimension = Len(c)
                   /\ Len(last.out.coordinates) = Len(c)
                   /\ \A i \in 1..Len(c) : last.out.coordinates[i] = ToDecimal(c[i])

\* a list of MaxLen elements of several types has been made a Vector
C1_Witness ==
    /\ last.op = "construct"
    /\ last.arg.t = "list"
    /\ Len(last.arg.items) >= 3
    /\ \E i, j \in 1..Len(last.arg.items) : last.arg.items[i].t # last.arg.items[j].t
    /\ IsVector(a)

\* C2: every coordinate of every Vector that exists (the receiver, the
\* argument, the result of the last operation) is a finite number, and a
\* construction from a list with an element that is not a valid finite number
\* fails with InvalidNumberError.
C2_FiniteCoordinates ==
    /\ \A v \in VectorsOf(a) \cup VectorsOf(b) \cup VectorsOf(last.out) : AllFinite(v)
    /\ (Constructed /\ last.arg.t = "list"
            /\ \E i \in 1..Len(last.arg.items) : ~ValidFinite(last.arg.items[i]))
           => last.out = InvalidNumberError

\* C3: a construction from an input that is not iterable fails with
\* NotIterableError.
C3_NotIterable ==
    (Constructed /\ ~Iterable(last.arg)) => last.out = NotIterableError

\* C4: an operation that fails does so with an exception of the taxonomy.
C4_ErrorClosure ==
    IsRaise(last.out) => last.out.exc \in TaxonomyClasses

\* C5: cross, area_of_parallelogram and area_of_triangle fail with
\* NotAVectorError for an argument that is not a Vector, succeed for two
\* Vectors of dimension 3, and fail with UnsupportedDimensionError for two
\* Vectors of other dimensions.
C5_CrossDimensions ==
    last.op \in {"cross", "area_of_parallelogram", "area_of_triangle"} =>
        IF ~IsVector(b) THEN last.out = NotAVectorError
        ELSE IF a.dimension = 3 /\ b.dimension = 3 THEN ~IsRaise(last.out)
        ELSE last.out = UnsupportedDimensionError

\* C6: a * b and b * a are, for a number b, the Vector of the coordinates of a
\* times b; for a Vector b, the outcome of a.cross(b); for any other b, a
\* failure with InvalidOperandError.
C6_MultiplyDispatch ==
    last.op \in {"mul", "rmul"} =>
        IF IsNumber(b)
        THEN /\ IsVector(last.out)
             /\ last.out.dimension = a.dimension
             /\ Len(last.out.coordinates) = Len(a.coordinates)
             /\ \A i \in 1..Len(a.coordinates) :
                    last.out.coordinates[i] = DMul(a.coordinates[i], ToDecimal(b))
        ELSE IF IsVector(b) THEN last.out = Cross(a, b)
        ELSE last.out = InvalidOperandError

\* C7: no step changes a Vector that is bound: neither the receiver nor the
\* argument of an operation, whether the operation succeeds or fails.
C7_Immutability ==
    [][(IsVector(a) => a' = a) /\ (IsVector(b) => b' = b)]_vars

\* a + b has returned a new Vector, other than both operands
C7_Witness ==
    /\ last.op = "add"
    /\ IsVector(b)
    /\ IsVector(last.out)
    /\ last.out # a
    /\ last.out # b

\* C8: for Vectors a and b of dimension 3 whose cross product exists,
\* a.cross(b) == b.cross(a) * -1.
C8_AntiCommutative ==
    (last.op = "cross" /\ IsVector(last.out)) =>
        Eq(last.out, Mul(Cross(b, a), IntVal(-1))) = BoolVal(TRUE)

\* C9: for a Vector a of finite coordinates and the zero vector b of the same
\* dimension, a + b == a.
C9_AdditiveIdentity ==
    (/\ last.op = "add"
     /\ IsVector(b)
     /\ b.dimension = a.dimension
     /\ \A i \in 1..Len(b.coordinates) : b.coordinates[i] = ToDecimal(IntVal(0))
     /\ AllFinite(a))
        => (IsVector(last.out) /\ Eq(last.out, a) = BoolVal(TRUE))

\* C10: add, subtract and dot of a shorter receiver and a longer argument
\* succeed, a Vector result having the dimension of the receiver; of a longer
\* receiver and a shorter argument they fail with the index error; and for
\* equal dimensions add and dot have the outcome of the swapped call.
C10_DimensionAsymmetry ==
    (last.op \in {"add", "sub", "dot"} /\ IsVector(b)) =>
        /\ a.dimension < b.dimension =>
               /\ ~IsRaise(last.out)
               /\ IsVector(last.out) => last.out.dimension = a.dimension
        /\ a.dimension > b.dimension => last.out = IndexOutOfRange
        /\ (a.dimension = b.dimension /\ last.op = "add") => last.out = Add(b, a)
        /\ (a.dimension = b.dimension /\ last.op = "dot") => last.out = Dot(b, a)

====
